---- MODULE Spec2Model ----
(***************************************************************************)
(* Model of the command lifecycle manager (local_server/main.py,           *)
(* create_command) running against the commands table of the backend, of  *)
(* the similarity query of the vector store facade                         *)
(* (PgVectorDataStore._query), and of its _upsert and delete on the        *)
(* documents table, and of the serialization adapter of SupabaseClient.    *)
(*                                                                         *)
(* Python values are modelled as follows.  None is the string "<None>".  An   *)
(* enum member is the string "<Class>.<NAME>"; its .value is looked up in  *)
(* EnumValue.  An optional object (Command | None) is a record, or <<>>    *)
(* for None; an optional int is <<n>>, or <<>> for None.  A dict is a      *)
(* function from its keys.                                                 *)
(* Of a Command the fields id, status, errors and created_at are modelled:  *)
(* updated_at, type and content are never read by the manager.             *)
(* Of a row of the documents table the columns id, content, document_id,  *)
(* source, source_id and author are modelled.                              *)
(***************************************************************************)
EXTENDS Integers, Sequences, FiniteSets, TLC

VARIABLES
    now,            \* time.time(), in whole time units
    pc,             \* per request: position of the create_command handler
    request,        \* per request: request.command (mutated by the handler)
    id,             \* per request: local variable id
    start_time,     \* per request: local variable start_time
    command,        \* per request: local variable command (last fetch)
    wake,           \* per request: earliest time asyncio.sleep(5) returns
    response,       \* per request: what the handler returned or raised
    table,          \* backend: the commands table, id -> row
    writes,         \* per request: backend write calls issued, in order
    fetches,        \* per request: number of get_command calls issued
    seen,           \* per request: set of statuses the fetches returned
    queries,        \* _query: the input list
    qi,             \* _query: index of the query the for loop is at
    query_results,  \* _query: local variable query_results
    rpc_log,        \* _query: what the backend answered to each rpc call
    documents,      \* backend: the documents table, a set of rows
    latest,         \* per chunk id: the text of its last upsert (failed ones
                    \* that raised out of _upsert apart)
    store_pc,       \* _upsert / delete: position of the call in progress
    chunks,         \* _upsert: the input dict, as the sequence of its items
    ui,             \* _upsert: index of the chunk the loops are at
    upsert_log,     \* _upsert: the client.upsert calls of this call, in order
    upsert_result,  \* _upsert: the list returned
    delete_args,    \* delete: the arguments ids, filter, delete_all
    delete_calls,   \* delete: the client calls of this call, in order
    delete_result,  \* delete: the bool returned
    conv_op,        \* adapter: the client call it serves, "upsert" or "update"
    conv_data,      \* adapter: the json the client call was given
    conv_json,      \* adapter: what the adapter returned for it
    conv_again,     \* adapter: what the adapter returned for conv_json
    conv_pc         \* adapter: "called", "converted" or "twice"

cmdVars == <<now, pc, request, id, start_time, command, wake,
             response, table, writes, fetches, seen>>
queryVars == <<queries, qi, query_results, rpc_log>>
storeVars == <<documents, latest, store_pc, chunks, ui, upsert_log,
               upsert_result, delete_args, delete_calls, delete_result>>
adapterVars == <<conv_op, conv_data, conv_json, conv_again, conv_pc>>
vars == <<now, pc, request, id, start_time, command, wake,
          response, table, writes, fetches, seen,
          queries, qi, query_results, rpc_log,
          documents, latest, store_pc, chunks, ui, upsert_log,
          upsert_result, delete_args, delete_calls, delete_result,
          conv_op, conv_data, conv_json, conv_again, conv_pc>>

----------------------------------------------------------------------------
(* Bounds and program constants *)

Deadline == 20
PollInterval == 5
MaxStartTime == 1
MaxOvershoot == 1
MaxQueries == 2
MaxTopK == 1

None == "<None>"
Requests == {"r1", "r2"}
Uuids == <<"u1", "u2">>

TimeoutMessage == "Command was abandoned due to timeout. Check Obsidian connection"
ErrorMessages == {"boom", TimeoutMessage}

----------------------------------------------------------------------------
(* models/models.py *)

CommandStatus ==
    {"CommandStatus.NEW", "CommandStatus.PROCESSING", "CommandStatus.COMPLETED",
     "CommandStatus.ABANDONED", "CommandStatus.ERROR"}

Source == {"Source.EMAIL", "Source.FILE", "Source.CHAT"}

\* the .value of an enum member
EnumValue ==
    [m \in CommandStatus \cup Source |->
        CASE m = "CommandStatus.NEW" -> "NEW"
          [] m = "CommandStatus.PROCESSING" -> "PROCESSING"
          [] m = "CommandStatus.COMPLETED" -> "COMPLETED"
          [] m = "CommandStatus.ABANDONED" -> "ABANDONED"
          [] m = "CommandStatus.ERROR" -> "ERROR"
          [] m = "Source.EMAIL" -> "EMAIL"
          [] m = "Source.FILE" -> "FILE"
          [] m = "Source.CHAT" -> "CHAT"]

\* CommandStatus(value): the member with that value (pydantic's parse of a row)
CommandStatusOf(value) == CHOOSE m \in CommandStatus : EnumValue[m] = value

\* Command(**row): the bare Command fields of a row
Command(row) ==
    [id |-> row.id, status |-> CommandStatusOf(row.status), errors |-> row.errors]

NoCommand == <<>>

\* command.dict()
CommandDict(cmd) ==
    [id |-> cmd.id, status |-> cmd.status, errors |-> cmd.errors,
     created_at |-> cmd.created_at]

----------------------------------------------------------------------------
(* datastore/providers/supabase_datastore.py: SupabaseClient *)

\* _convert_object_to_serializable_json on a flat dict: None-valued keys are
\* dropped, enum members become their value
ConvertObject(data) ==
    [k \in {key \in DOMAIN data : data[key] # None} |->
        IF data[k] \in DOMAIN EnumValue THEN EnumValue[data[k]] ELSE data[k]]

\* SupabaseClient.upsert, lines 47-48: json["created_at"][0].isoformat() when
\* the key is there.  The created_at of a command is a str, its [0] is a str,
\* which has no isoformat: AttributeError, raised outside the try of line 50.
UpsertRaises(json) == "created_at" \in DOMAIN json

NullRow == [id |-> None, status |-> None, errors |-> None]

\* the columns of json written over a row
WriteColumns(row, json) ==
    [c \in DOMAIN row |-> IF c \in DOMAIN json THEN json[c] ELSE row[c]]

\* client.table(t).upsert(json).execute(): insert, or update on a key conflict
TableUpsert(tbl, json) ==
    LET key == json.id
        old == IF key \in DOMAIN tbl THEN tbl[key] ELSE NullRow
    IN  [k \in DOMAIN tbl \cup {key} |->
            IF k = key THEN WriteColumns(old, json) ELSE tbl[k]]

\* (mutant: the update without its .eq("id", ..) filter)
TableUpdate_everyRow(tbl, json) ==
    [k \in DOMAIN tbl |-> WriteColumns(tbl[k], json)]

\* client.table(t).update(json).eq("id", json["id"]).execute()
TableUpdate(tbl, json) ==
    [k \in DOMAIN tbl |->
        IF k = json.id THEN WriteColumns(tbl[k], json) ELSE tbl[k]]

\* client.table(t).select(..).eq("id", id).execute().data
GetById(tbl, key) ==
    IF key \in DOMAIN tbl THEN <<tbl[key]>> ELSE <<>>

----------------------------------------------------------------------------
(* datastore/providers/pgvector_datastore.py: commands *)

\* PgVectorDataStore.get_command
GetCommandResult(tbl, key) ==
    LET data == GetById(tbl, key)
    IN  IF data # <<>> THEN Command(data[1]) ELSE NoCommand

\* PgVectorDataStore.create_command, line 209: str(uuid4()).
\* A uuid4 is an id no earlier call returned; ids are only ever compared for
\* equality, so which fresh id it is does not matter and the first unused one
\* of Uuids is taken.
Uuid4(used) ==
    Uuids[CHOOSE i \in DOMAIN Uuids :
            /\ Uuids[i] \notin used
            /\ \A j \in DOMAIN Uuids : Uuids[j] \notin used => i <= j]

----------------------------------------------------------------------------
(* local_server/main.py: create_command *)

CommandResponse(i, errors) == [kind |-> "CommandResponse", id |-> i, errors |-> errors]

\* except Exception: raise HTTPException(status_code=500, ...)
InternalServiceError ==
    [kind |-> "HTTPException", status_code |-> 500, detail |-> "Internal Service Error"]

NoResponse == <<>>

\* (mutant: the operands of the subtraction swapped)
TimedOut_swapped(t, start) == start - t > Deadline

\* (mutant: the deadline itself counts as exceeded)
TimedOut_atDeadline(t, start) == t - start >= Deadline

\* line 96: time.time() - start_time > 20
TimedOut(t, start) == t - start > Deadline

\* (mutant: the deadline is tested before the status)
Decide_deadlineFirst(status, t, start) ==
    IF TimedOut(t, start) THEN "abandon"
    ELSE IF status = "CommandStatus.COMPLETED" THEN "return_success"
    ELSE IF status = "CommandStatus.ERROR" THEN "return_errors"
    ELSE "sleep"

\* (mutant: the deadline is tested before the ERROR status)
Decide_deadlineBeforeError(status, t, start) ==
    IF status = "CommandStatus.COMPLETED" THEN "return_success"
    ELSE IF TimedOut(t, start) THEN "abandon"
    ELSE IF status = "CommandStatus.ERROR" THEN "return_errors"
    ELSE "sleep"

\* (mutant: the ERROR branch is missing)
Decide_noErrorBranch(status, t, start) ==
    IF status = "CommandStatus.COMPLETED" THEN "return_success"
    ELSE IF TimedOut(t, start) THEN "abandon"
    ELSE "sleep"

\* lines 90-103: what one iteration does with the fetched command
Decide(status, t, start) ==
    IF status = "CommandStatus.COMPLETED" THEN "return_success"
    ELSE IF status = "CommandStatus.ERROR" THEN "return_errors"
    ELSE IF TimedOut(t, start) THEN "abandon"
    ELSE "sleep"

\* (mutant: another status is assigned)
AbandonedCommand_error(cmd) == [cmd EXCEPT !.status = "CommandStatus.ERROR"]

\* line 98: request.command.status = CommandStatus.ABANDONED
AbandonedCommand(cmd) == [cmd EXCEPT !.status = "CommandStatus.ABANDONED"]

\* (mutant: the sleep lasts two intervals)
WakeTime_double(t) == t + 2 * PollInterval

\* line 103: asyncio.sleep(5) returns no earlier than 5 units from now
WakeTime(t) == t + PollInterval

\* (mutant: the return after the update is missing, the loop goes on)
AfterUpdate_noReturn == "sleep"

\* line 100: the return that follows the update ends the handler
AfterUpdate == "done"

\* a backend write call as issued: the operation, the id and status of the
\* json sent, whether the backend applied it and whether the call raised
WriteCall(op, json, applied, raised) ==
    [op |-> op, id |-> json.id, status |-> json.status,
     applied |-> applied, raised |-> raised]

\* line 84: id = await datastore.create_command(request.command).
\* SupabaseClient.upsert catches an exception of the backend call and logs it
\* with logger.error(msg + str(e), e): loguru formats the message with
\* str.format, which returns for a text without braces (the exception is
\* swallowed, the row may not have been written when the call returns) and
\* raises for a text with braces.  That exception, and one raised before the
\* try, reach the handler's except clause.
CreateCommand(r) ==
    /\ pc[r] = "start"
    /\ \E written \in BOOLEAN, propagates \in BOOLEAN :
        LET u == Uuid4({request[q].id : q \in {q \in Requests : pc[q] \notin {"off", "start"}}})
            cmd == [request[r] EXCEPT !.id = u]
            json == ConvertObject(CommandDict(cmd))
        IN  /\ request' = [request EXCEPT ![r] = cmd]
            /\ IF UpsertRaises(json)
               THEN /\ response' = [response EXCEPT ![r] = InternalServiceError]
                    /\ pc' = [pc EXCEPT ![r] = "done"]
                    /\ UNCHANGED <<id, table, writes>>
               ELSE /\ table' = IF written THEN TableUpsert(table, json) ELSE table
                    /\ writes' = [writes EXCEPT ![r] =
                                     Append(@, WriteCall("upsert", json, written, propagates))]
                    /\ IF propagates
                       THEN /\ response' = [response EXCEPT ![r] = InternalServiceError]
                            /\ pc' = [pc EXCEPT ![r] = "done"]
                            /\ UNCHANGED id
                       ELSE /\ id' = [id EXCEPT ![r] = u]
                            /\ pc' = [pc EXCEPT ![r] = "created"]
                            /\ UNCHANGED response
    /\ UNCHANGED <<now, start_time, command, wake, fetches, seen>>
    /\ UNCHANGED <<queryVars, storeVars, adapterVars>>

\* line 85: start_time = time.time()
RecordStart(r) ==
    /\ pc[r] = "created"
    /\ start_time' = [start_time EXCEPT ![r] = now]
    /\ pc' = [pc EXCEPT ![r] = "poll"]
    /\ UNCHANGED <<now, request, id, command, wake, response, table,
                   writes, fetches, seen>>
    /\ UNCHANGED <<queryVars, storeVars, adapterVars>>

\* line 89: command = await datastore.get_command(id); the backend call may raise
GetCommand(r) ==
    /\ pc[r] = "poll"
    /\ fetches' = [fetches EXCEPT ![r] = @ + 1]
    /\ \E raises \in BOOLEAN :
        IF raises
        THEN /\ response' = [response EXCEPT ![r] = InternalServiceError]
             /\ pc' = [pc EXCEPT ![r] = "done"]
             /\ UNCHANGED <<command, seen>>
        ELSE LET got == GetCommandResult(table, id[r])
             IN  /\ command' = [command EXCEPT ![r] = got]
                 /\ seen' = [seen EXCEPT ![r] =
                                IF got = NoCommand THEN @ ELSE @ \cup {got.status}]
                 /\ pc' = [pc EXCEPT ![r] = "check"]
                 /\ UNCHANGED response
    /\ UNCHANGED <<now, request, id, start_time, wake, table, writes>>
    /\ UNCHANGED <<queryVars, storeVars, adapterVars>>

\* lines 90-103; command.status on None raises AttributeError (line 90)
CheckStatus(r) ==
    /\ pc[r] = "check"
    /\ IF command[r] = NoCommand
       THEN /\ response' = [response EXCEPT ![r] = InternalServiceError]
            /\ pc' = [pc EXCEPT ![r] = "done"]
            /\ UNCHANGED <<request, wake>>
       ELSE LET d == Decide(command[r].status, now, start_time[r])
            IN  CASE d = "return_success" ->
                       /\ response' = [response EXCEPT ![r] = CommandResponse(id[r], None)]
                       /\ pc' = [pc EXCEPT ![r] = "done"]
                       /\ UNCHANGED <<request, wake>>
                  [] d = "return_errors" ->
                       /\ response' = [response EXCEPT ![r] =
                                          CommandResponse(id[r], command[r].errors)]
                       /\ pc' = [pc EXCEPT ![r] = "done"]
                       /\ UNCHANGED <<request, wake>>
                  [] d = "abandon" ->
                       /\ request' = [request EXCEPT ![r] = AbandonedCommand(@)]
                       /\ pc' = [pc EXCEPT ![r] = "abandon"]
                       /\ UNCHANGED <<response, wake>>
                  [] d = "sleep" ->
                       /\ wake' = [wake EXCEPT ![r] = WakeTime(now)]
                       /\ pc' = [pc EXCEPT ![r] = "sleep"]
                       /\ UNCHANGED <<request, response>>
    /\ UNCHANGED <<now, id, start_time, command, table, writes, fetches, seen>>
    /\ UNCHANGED <<queryVars, storeVars, adapterVars>>

\* lines 99-100: await datastore.update_command(request.command), then return.
\* SupabaseClient.update does not catch: the call may raise, with the row
\* updated or not.
UpdateCommand(r) ==
    /\ pc[r] = "abandon"
    /\ \E applied \in BOOLEAN, raises \in BOOLEAN :
        LET json == ConvertObject(CommandDict(request[r]))
        IN  /\ applied \/ raises
            /\ table' = IF applied THEN TableUpdate(table, json) ELSE table
            /\ writes' = [writes EXCEPT ![r] =
                             Append(@, WriteCall("update", json, applied, raises))]
            /\ response' = [response EXCEPT ![r] =
                               IF raises THEN InternalServiceError
                               ELSE CommandResponse(id[r], TimeoutMessage)]
            /\ pc' = [pc EXCEPT ![r] = IF raises THEN "done" ELSE AfterUpdate]
    /\ UNCHANGED <<now, request, id, start_time, command, wake, fetches, seen>>
    /\ UNCHANGED <<queryVars, storeVars, adapterVars>>

\* line 103: asyncio.sleep(5) returns
Wake(r) ==
    /\ pc[r] = "sleep"
    /\ now >= wake[r]
    /\ pc' = [pc EXCEPT ![r] = "poll"]
    /\ wake' = [wake EXCEPT ![r] = 0]
    /\ UNCHANGED <<now, request, id, start_time, command, response,
                   table, writes, fetches, seen>>
    /\ UNCHANGED <<queryVars, storeVars, adapterVars>>

----------------------------------------------------------------------------
(* The environment of the manager: the clock and the external executor *)

\* The time up to which the clock is followed for a request: every request
\* has returned by start_time + Deadline + PollInterval when calls take no
\* time; MaxOvershoot more units cover slow calls.
Horizon(r) ==
    IF pc[r] \in {"start", "created"} THEN MaxStartTime
    ELSE start_time[r] + Deadline + PollInterval + MaxOvershoot

Tick ==
    /\ \E r \in Requests : pc[r] \notin {"off", "done"} /\ now < Horizon(r)
    /\ now' = now + 1
    /\ UNCHANGED <<pc, request, id, start_time, command, wake, response,
                   table, writes, fetches, seen>>
    /\ UNCHANGED <<queryVars, storeVars, adapterVars>>

\* The external executor advances a command NEW -> PROCESSING -> COMPLETED | ERROR
ExecutorStart(u) ==
    /\ u \in DOMAIN table
    /\ table[u].status = "NEW"
    /\ table' = [table EXCEPT ![u].status = "PROCESSING"]
    /\ UNCHANGED <<now, pc, request, id, start_time, command, wake,
                   response, writes, fetches, seen>>
    /\ UNCHANGED <<queryVars, storeVars, adapterVars>>

ExecutorComplete(u) ==
    /\ u \in DOMAIN table
    /\ table[u].status = "PROCESSING"
    /\ table' = [table EXCEPT ![u].status = "COMPLETED"]
    /\ UNCHANGED <<now, pc, request, id, start_time, command, wake,
                   response, writes, fetches, seen>>
    /\ UNCHANGED <<queryVars, storeVars, adapterVars>>

ExecutorFail(u) ==
    /\ u \in DOMAIN table
    /\ table[u].status = "PROCESSING"
    /\ \E e \in ErrorMessages \cup {None} :
        table' = [table EXCEPT ![u].status = "ERROR", ![u].errors = e]
    /\ UNCHANGED <<now, pc, request, id, start_time, command, wake,
                   response, writes, fetches, seen>>
    /\ UNCHANGED <<queryVars, storeVars, adapterVars>>

----------------------------------------------------------------------------
(* Specification of one command-creation request *)

\* request.command as the client may send it: any id (it is replaced), any
\* status (default NEW), errors and created_at absent or given
ClientCommands ==
    [id : {None, "u1"}, status : CommandStatus, errors : {None, "boom"},
     created_at : {None, "2023-01-01"}]

IdleCommand ==
    [id |-> None, status |-> "CommandStatus.NEW", errors |-> None, created_at |-> None]

InitQueryIdle ==
    /\ queries = <<>>
    /\ qi = 1
    /\ query_results = <<>>
    /\ rpc_log = <<>>

\* no call of the serialization adapter made
InitAdapterIdle ==
    /\ conv_op = "upsert"
    /\ conv_data = <<>>
    /\ conv_json = <<>>
    /\ conv_again = <<>>
    /\ conv_pc = "idle"

\* no call of _upsert or delete made, the documents table empty
InitStoreIdle ==
    /\ documents = {}
    /\ latest = [c \in {"c1", "c2"} |-> None]
    /\ store_pc = "idle"
    /\ chunks = <<>>
    /\ ui = 1
    /\ upsert_log = <<>>
    /\ upsert_result = <<>>
    /\ delete_args = [ids |-> <<>>, filter |-> <<>>, delete_all |-> <<>>]
    /\ delete_calls = <<>>
    /\ delete_result = <<>>

InitCmdWith(active) ==
    /\ now \in 0..MaxStartTime
    /\ pc = [r \in Requests |-> IF r \in active THEN "start" ELSE "off"]
    /\ request \in [Requests -> ClientCommands]
    /\ \A r \in Requests \ active : request[r] = IdleCommand
    /\ id = [r \in Requests |-> None]
    /\ start_time = [r \in Requests |-> 0]
    /\ command = [r \in Requests |-> NoCommand]
    /\ wake = [r \in Requests |-> 0]
    /\ response = [r \in Requests |-> NoResponse]
    /\ table = <<>>
    /\ writes = [r \in Requests |-> <<>>]
    /\ fetches = [r \in Requests |-> 0]
    /\ seen = [r \in Requests |-> {}]
    /\ InitQueryIdle
    /\ InitStoreIdle
    /\ InitAdapterIdle

InitCmd == InitCmdWith({"r1"})

NextCmd ==
    \/ \E r \in Requests : CreateCommand(r)
    \/ \E r \in Requests : RecordStart(r)
    \/ \E r \in Requests : GetCommand(r)
    \/ \E r \in Requests : CheckStatus(r)
    \/ \E r \in Requests : UpdateCommand(r)
    \/ \E r \in Requests : Wake(r)
    \/ Tick
    \/ \E u \in DOMAIN table : ExecutorStart(u)
    \/ \E u \in DOMAIN table : ExecutorComplete(u)
    \/ \E u \in DOMAIN table : ExecutorFail(u)

SpecCmd == InitCmd /\ [][NextCmd]_vars

\* the steps of the handler of request r; its pc enables at most one of them
Manager(r) ==
    \/ CreateCommand(r)
    \/ RecordStart(r)
    \/ GetCommand(r)
    \/ CheckStatus(r)
    \/ UpdateCommand(r)
    \/ Wake(r)

\* The event loop resumes every handler whose awaited call has returned, the
\* backend answers every call (with a result or an exception), and time passes.
FairCmd ==
    /\ \A r \in Requests : WF_vars(Manager(r))
    /\ WF_vars(Tick)

FairSpecCmd == InitCmd /\ [][NextCmd]_vars /\ FairCmd

----------------------------------------------------------------------------
(* Properties of the command lifecycle manager *)

TerminalValues == {"COMPLETED", "ABANDONED", "ERROR"}
NonTerminal == {"CommandStatus.NEW", "CommandStatus.PROCESSING"}

\* the update calls request r has issued
Updates(r) == SelectSeq(writes[r], LAMBDA w : w.op = "update")

Fetched(r, status) == command[r] # NoCommand /\ command[r].status = status

TimeoutResponse(r) == CommandResponse(id[r], TimeoutMessage)

\* C1: once a command's stored status is COMPLETED, ABANDONED or ERROR, no
\* step changes it; in particular the manager's timeout update does not
\* overwrite a COMPLETED or ERROR the executor wrote after the last fetch.
C1_TerminalStatusIsFinal ==
    [][\A u \in DOMAIN table :
          table[u].status \in TerminalValues => table'[u].status = table[u].status]_vars

\* the three outcomes the manager is said to end in
Success(r) ==
    /\ Fetched(r, "CommandStatus.COMPLETED")
    /\ response[r] = CommandResponse(id[r], None)

BackendError(r) ==
    /\ Fetched(r, "CommandStatus.ERROR")
    /\ response[r] = CommandResponse(id[r], command[r].errors)

Abandonment(r) ==
    /\ Len(Updates(r)) = 1
    /\ Updates(r)[1].status = "ABANDONED"
    /\ response[r] = TimeoutResponse(r)

\* the fourth: the handler's except clause answers HTTP 500
InternalError(r) == response[r] = InternalServiceError

\* C2 as stated: a request that has ended has ended in success, backend
\* error or abandonment.
C2_ThreeOutcomes ==
    \A r \in Requests : pc[r] = "done" => Success(r) \/ BackendError(r) \/ Abandonment(r)

Bit(b) == IF b THEN 1 ELSE 0

\* C2 as amended: every request ends, and it ends in exactly one of four
\* outcomes: success, backend error, abandonment or internal service error.
C2_EndsInOneOfFourOutcomes ==
    /\ \A r \in Requests : (pc[r] # "off") ~> (pc[r] = "done")
    /\ [](\A r \in Requests :
            pc[r] = "done" =>
                Bit(Success(r)) + Bit(BackendError(r)) + Bit(Abandonment(r))
                    + Bit(InternalError(r)) = 1)

C2_Witness ==
    \E r \in Requests : pc[r] = "done" /\ InternalError(r) /\ fetches[r] > 1

C4_CompletedReturnsSuccess ==
    \A r \in Requests :
        Fetched(r, "CommandStatus.COMPLETED") =>
            /\ pc[r] \in {"check", "done"}
            /\ Len(writes[r]) = 1 /\ writes[r][1].op = "upsert"
            /\ pc[r] = "done" => response[r] = CommandResponse(id[r], None)

C4_Witness ==
    \E r \in Requests :
        /\ pc[r] = "done" /\ Fetched(r, "CommandStatus.COMPLETED")
        /\ now - start_time[r] > Deadline

\* C5: once a fetch has returned ERROR the manager returns a failure that
\* carries the fetched command's errors, and fetches, sleeps and updates no
\* more.
C5_ErrorReturnsFailure ==
    /\ [](\A r \in Requests :
            Fetched(r, "CommandStatus.ERROR") =>
                /\ pc[r] \in {"check", "done"}
                /\ Updates(r) = <<>>
                /\ pc[r] = "done" => response[r] = CommandResponse(id[r], command[r].errors))
    /\ [][\A r \in Requests :
            Fetched(r, "CommandStatus.ERROR") =>
                /\ fetches'[r] = fetches[r]
                /\ writes'[r] = writes[r]
                /\ pc'[r] # "sleep"]_vars

C5_Witness ==
    \E r \in Requests :
        /\ pc[r] = "done" /\ Fetched(r, "CommandStatus.ERROR")
        /\ command[r].errors = "boom"
        /\ response[r] = CommandResponse(id[r], "boom")

\* C6: a request issues at most one backend write after the creation write,
\* and that write is the update setting status ABANDONED on its own id.
C6_AtMostOneWriteAfterCreation ==
    \A r \in Requests :
        /\ Len(writes[r]) <= 2
        /\ Len(writes[r]) >= 1 => writes[r][1].op = "upsert"
        /\ Len(writes[r]) = 2 =>
              /\ writes[r][2].op = "update"
              /\ writes[r][2].id = id[r]
              /\ writes[r][2].status = "ABANDONED"

C6_Witness ==
    \E r \in Requests : pc[r] = "done" /\ Len(writes[r]) = 2

\* C7: the response carries no error message exactly when COMPLETED was
\* observed, and a response to an observed ERROR differs from the success
\* response and from the timeout response whatever the recorded errors are.
C7_OutcomesDistinguishable ==
    \A r \in Requests :
        (pc[r] = "done" /\ response[r] # InternalServiceError) =>
            /\ response[r].errors = None <=> Fetched(r, "CommandStatus.COMPLETED")
            /\ (Fetched(r, "CommandStatus.ERROR") /\ Updates(r) = <<>>) =>
                  /\ response[r] # CommandResponse(id[r], None)
                  /\ response[r] # TimeoutResponse(r)

\* C16 as stated: an update is issued only after a fetch that returned NEW or
\* PROCESSING, and only when more than Deadline time units have elapsed since
\* start_time; the timeout branch is never entered at or before the deadline.
C16_AbandonsOnlyNonTerminalPastDeadline ==
    /\ [](\A r \in Requests : pc[r] = "abandon" => now - start_time[r] > Deadline)
    /\ [][\A r \in Requests :
            Len(Updates(r)') > Len(Updates(r)) =>
                /\ command[r] # NoCommand
                /\ command[r].status \in NonTerminal
                /\ now - start_time[r] > Deadline]_vars

\* C16 as amended: an update is issued only after a fetch that returned a
\* status other than COMPLETED and ERROR (NEW, PROCESSING or ABANDONED), and
\* only when more than Deadline time units have elapsed since start_time; the
\* timeout branch is never entered at or before the deadline.
C16_AbandonsOnlyUnfinishedPastDeadline ==
    /\ [](\A r \in Requests : pc[r] = "abandon" => now - start_time[r] > Deadline)
    /\ [][\A r \in Requests :
            Len(Updates(r)') > Len(Updates(r)) =>
                /\ command[r] # NoCommand
                /\ command[r].status \notin {"CommandStatus.COMPLETED", "CommandStatus.ERROR"}
                /\ Updates(r)'[Len(Updates(r)')].status = "ABANDONED"
                /\ now - start_time[r] > Deadline]_vars

C16_Witness ==
    \E r \in Requests :
        /\ Len(Updates(r)) = 1
        /\ Fetched(r, "CommandStatus.ABANDONED")
        /\ now - start_time[r] = Deadline + 1

\* C18: a check of a fetched COMPLETED or ERROR made after the deadline has
\* passed returns that outcome and writes nothing.
C18_StatusBeforeDeadline ==
    [][\A r \in Requests :
          (/\ pc[r] = "check" /\ pc'[r] # "check"
           /\ command[r] # NoCommand
           /\ command[r].status \in {"CommandStatus.COMPLETED", "CommandStatus.ERROR"}
           /\ now - start_time[r] > Deadline) =>
              /\ pc'[r] = "done"
              /\ writes'[r] = writes[r]
              /\ table' = table
              /\ response'[r] =
                    IF command[r].status = "CommandStatus.COMPLETED"
                    THEN CommandResponse(id[r], None)
                    ELSE CommandResponse(id[r], command[r].errors)]_vars

C18_Witness ==
    \E r \in Requests :
        /\ pc[r] = "done" /\ Fetched(r, "CommandStatus.ERROR")
        /\ now - start_time[r] > Deadline
        /\ Updates(r) = <<>>
        /\ response[r] = CommandResponse(id[r], command[r].errors)

----------------------------------------------------------------------------
(* The manager when backend calls take no time: the clock moves only while  *)
(* every handler that has started is suspended in asyncio.sleep, and a      *)
(* sleep returns as soon as its interval is over.  A request that has not   *)
(* started yet starts no later than MaxStartTime.                           *)

SleepTick ==
    /\ \A r \in Requests :
          pc[r] \in {"off", "sleep", "done"} \/ (pc[r] = "start" /\ now < MaxStartTime)
    /\ \E r \in Requests : pc[r] = "sleep" /\ now < wake[r]
    /\ \A r \in Requests : pc[r] = "sleep" => now < wake[r]
    /\ now' = now + 1
    /\ UNCHANGED <<pc, request, id, start_time, command, wake, response,
                   table, writes, fetches, seen>>
    /\ UNCHANGED <<queryVars, storeVars, adapterVars>>

NextCmdTimed ==
    \/ \E r \in Requests : CreateCommand(r)
    \/ \E r \in Requests : RecordStart(r)
    \/ \E r \in Requests : GetCommand(r)
    \/ \E r \in Requests : CheckStatus(r)
    \/ \E r \in Requests : UpdateCommand(r)
    \/ \E r \in Requests : Wake(r)
    \/ SleepTick
    \/ \E u \in DOMAIN table : ExecutorStart(u)
    \/ \E u \in DOMAIN table : ExecutorComplete(u)
    \/ \E u \in DOMAIN table : ExecutorFail(u)

SpecCmdTimed == InitCmd /\ [][NextCmdTimed]_vars

----------------------------------------------------------------------------
(* Two command-creation requests running concurrently *)

\* what the two clients send: an id of their own choosing or none
TwoClientCommands ==
    [id : {None, "u2"}, status : {"CommandStatus.NEW"}, errors : {None},
     created_at : {None}]

InitCmdTwo ==
    /\ now = 0
    /\ pc = [r \in Requests |-> "start"]
    /\ request \in [Requests -> TwoClientCommands]
    /\ id = [r \in Requests |-> None]
    /\ start_time = [r \in Requests |-> 0]
    /\ command = [r \in Requests |-> NoCommand]
    /\ wake = [r \in Requests |-> 0]
    /\ response = [r \in Requests |-> NoResponse]
    /\ table = <<>>
    /\ writes = [r \in Requests |-> <<>>]
    /\ fetches = [r \in Requests |-> 0]
    /\ seen = [r \in Requests |-> {}]
    /\ InitQueryIdle
    /\ InitStoreIdle
    /\ InitAdapterIdle

SpecCmdTwo == InitCmdTwo /\ [][NextCmdTimed]_vars

\* C19: every request has an id of its own, generated for it and put in place
\* of what the client sent; what it fetches and what it writes carries that
\* id, and its update changes no row but that of its id.
C19_RequestsKeepToTheirOwnId ==
    /\ [](\A r \in Requests :
            id[r] # None =>
                /\ request[r].id = id[r]
                /\ \A q \in Requests \ {r} : id[q] # id[r]
                /\ command[r] # NoCommand => command[r].id = id[r]
                /\ \A k \in 1..Len(writes[r]) : writes[r][k].id = id[r])
    /\ [][\A r \in Requests :
            Len(Updates(r)') > Len(Updates(r)) =>
                /\ DOMAIN table' = DOMAIN table
                /\ \A u \in DOMAIN table \ {id[r]} : table'[u] = table[u]]_vars

C19_Witness ==
    \E r \in Requests, q \in Requests :
        /\ r # q
        /\ Len(Updates(r)) = 1 /\ Updates(r)[1].applied
        /\ id[r] \in DOMAIN table /\ table[id[r]].status = "ABANDONED"
        /\ id[q] \in DOMAIN table /\ table[id[q]].status = "PROCESSING"
        /\ pc[q] = "sleep"

----------------------------------------------------------------------------
(* datastore/providers/pgvector_datastore.py: PgVectorDataStore._query *)

NoFilter == <<>>
NoInt == <<>>

\* Python truth of an Optional[str] and of an Optional[int]
TruthyStr(x) == x # None /\ x # ""
TruthyInt(x) == x # NoInt /\ x[1] # 0

\* services.date.to_unix_timestamp on the date strings of the model
ToUnixTimestamp(date_str) ==
    CASE date_str = "2023-01-01" -> 1672531200
      [] date_str = "2023-06-30" -> 1688083200

\* datetime.fromtimestamp
FromTimestamp(ts) == [datetime |-> ts]

\* datetime.isoformat
IsoFormat(dt) ==
    CASE dt.datetime = 1672531200 -> "2023-01-01T00:00:00"
      [] dt.datetime = 1688083200 -> "2023-06-30T00:00:00"

\* lines 132-148: the keys the filter adds to params
FilterKeys(filter) ==
    IF filter = NoFilter THEN {}
    ELSE (IF TruthyStr(filter.document_id) THEN {"in_document_id"} ELSE {})
         \cup (IF TruthyStr(filter.source) THEN {"in_source"} ELSE {})
         \cup (IF TruthyStr(filter.source_id) THEN {"in_source_id"} ELSE {})
         \cup (IF TruthyStr(filter.author) THEN {"in_author"} ELSE {})
         \cup (IF TruthyStr(filter.start_date) THEN {"in_start_date"} ELSE {})
         \cup (IF TruthyStr(filter.end_date) THEN {"in_end_date"} ELSE {})

\* lines 130-131: if query.top_k: params["in_match_count"] = query.top_k
MatchCountKeys(top_k) == IF TruthyInt(top_k) THEN {"in_match_count"} ELSE {}

\* lines 127-148: params
QueryParams(query) ==
    [k \in {"in_embedding"} \cup MatchCountKeys(query.top_k) \cup FilterKeys(query.filter) |->
        CASE k = "in_embedding" -> query.embedding
          [] k = "in_match_count" -> query.top_k[1]
          [] k = "in_document_id" -> query.filter.document_id
          [] k = "in_source" -> EnumValue[query.filter.source]
          [] k = "in_source_id" -> query.filter.source_id
          [] k = "in_author" -> query.filter.author
          [] k = "in_start_date" -> FromTimestamp(ToUnixTimestamp(query.filter.start_date))
          [] k = "in_end_date" -> FromTimestamp(ToUnixTimestamp(query.filter.end_date))]

\* SupabaseClient.rpc, lines 87-90: the dates of params are sent in ISO format
RpcParams(params) ==
    [k \in DOMAIN params |->
        IF k \in {"in_start_date", "in_end_date"} THEN IsoFormat(params[k]) ELSE params[k]]

\* The rows of the documents table that match, best first.  similarity is
\* <<n>> for the number n (in thousandths) and <<>> for null.
StoredRows ==
    << [id |-> "A", content |-> "text A", similarity |-> <<900>>, source |-> "FILE",
        source_id |-> None, document_id |-> "d1", url |-> None, created_at |-> None,
        author |-> None],
       [id |-> "B", content |-> "text B", similarity |-> <<800>>, source |-> "FILE",
        source_id |-> None, document_id |-> "d1", url |-> None, created_at |-> None,
        author |-> None],
       [id |-> "C", content |-> "text C", similarity |-> <<700>>, source |-> None,
        source_id |-> None, document_id |-> "d2", url |-> None, created_at |-> None,
        author |-> None],
       [id |-> "D", content |-> "text D", similarity |-> <<600>>, source |-> None,
        source_id |-> None, document_id |-> "d2", url |-> None, created_at |-> None,
        author |-> None] >>

\* The number of rows match_page_sections returns at most when in_match_count
\* is not passed
DefaultMatchCount == 3

Min(a, b) == IF a <= b THEN a ELSE b

\* The backend's answers to rpc("match_page_sections", params): it raises, or
\* returns the n best rows for some n up to in_match_count (up to its default
\* when that is not passed), the last of them possibly with a null similarity.
RpcAnswers(sent) ==
    LET limit == IF "in_match_count" \in DOMAIN sent THEN sent.in_match_count
                 ELSE DefaultMatchCount
        most == Min(limit, Len(StoredRows))
    IN  {[params |-> sent, raised |-> TRUE, rows |-> <<>>]}
        \cup {[params |-> sent, raised |-> FALSE, rows |-> SubSeq(StoredRows, 1, n)] :
                n \in 0..most}
        \cup {[params |-> sent, raised |-> FALSE,
               rows |-> [i \in 1..n |-> IF i = n
                                        THEN [StoredRows[i] EXCEPT !.similarity = <<>>]
                                        ELSE StoredRows[i]]] : n \in 1..most}

\* float(row["similarity"]): TypeError on None
FloatRaises(x) == x = <<>>
Float(x) == x[1]

\* lines 154-168: DocumentChunkWithScore(...) of one row
DocumentChunkWithScore(row) ==
    [id |-> row.id, text |-> row.content, score |-> Float(row.similarity),
     metadata |-> [source |-> row.source, source_id |-> row.source_id,
                   document_id |-> row.document_id, url |-> row.url,
                   created_at |-> row.created_at, author |-> row.author]]

\* (mutant: the first row is skipped)
MapRows_skipFirst(data) ==
    [i \in 1..(Len(data) - 1) |-> DocumentChunkWithScore(data[i + 1])]

\* lines 152-169: results, when no row raises
MapRows(data) == [i \in 1..Len(data) |-> DocumentChunkWithScore(data[i])]

MapRaises(data) == \E i \in 1..Len(data) : FloatRaises(data[i].similarity)

QueryResult(query, results) == [query |-> query, results |-> results]

\* (mutant: the except clause appends nothing)
OnException_skip(results_so_far, query) == results_so_far

\* lines 171-173: except Exception: append an empty result for the query
OnException(results_so_far, query) ==
    Append(results_so_far, QueryResult(query.query, <<>>))

\* line 170: append the result of the query
OnSuccess(results_so_far, query, data) ==
    Append(results_so_far, QueryResult(query.query, MapRows(data)))

\* lines 125-173: one iteration of the for loop
QueryStep ==
    /\ qi <= Len(queries)
    /\ LET query == queries[qi]
           params == QueryParams(query)
       IN  \E answer \in RpcAnswers(RpcParams(params)) :
             /\ rpc_log' = Append(rpc_log, answer)
             /\ query_results' =
                    IF answer.raised \/ MapRaises(answer.rows)
                    THEN OnException(query_results, query)
                    ELSE OnSuccess(query_results, query, answer.rows)
    /\ qi' = qi + 1
    /\ UNCHANGED queries
    /\ UNCHANGED <<cmdVars, storeVars, adapterVars>>

\* line 174: return query_results
QueryReturned == qi = Len(queries) + 1

----------------------------------------------------------------------------
(* Specification of one call of _query *)

QueryStrings == {"q1", "q2"}

Filters ==
    {NoFilter,
     [document_id |-> "d1", source |-> "Source.FILE", source_id |-> None,
      author |-> "", start_date |-> "2023-01-01", end_date |-> None]}

\* the values of top_k: absent, 0 and the positive counts up to MaxTopK
TopKs == {NoInt} \cup {<<k>> : k \in 0..MaxTopK}

QueryWithEmbedding ==
    [query : QueryStrings, filter : Filters, top_k : TopKs, embedding : {<<1, 0>>}]

SeqsUpTo(S, n) == UNION {[1..m -> S] : m \in 0..n}

InitCmdIdle ==
    /\ now = 0
    /\ pc = [r \in Requests |-> "off"]
    /\ request = [r \in Requests |-> IdleCommand]
    /\ id = [r \in Requests |-> None]
    /\ start_time = [r \in Requests |-> 0]
    /\ command = [r \in Requests |-> NoCommand]
    /\ wake = [r \in Requests |-> 0]
    /\ response = [r \in Requests |-> NoResponse]
    /\ table = <<>>
    /\ writes = [r \in Requests |-> <<>>]
    /\ fetches = [r \in Requests |-> 0]
    /\ seen = [r \in Requests |-> {}]

InitQuery ==
    /\ queries \in SeqsUpTo(QueryWithEmbedding, MaxQueries)
    /\ qi = 1
    /\ query_results = <<>>
    /\ rpc_log = <<>>
    /\ InitCmdIdle
    /\ InitStoreIdle
    /\ InitAdapterIdle

NextQuery == QueryStep

SpecQuery == InitQuery /\ [][NextQuery]_vars

----------------------------------------------------------------------------
(* Properties of _query *)

\* the scored chunks are the rows, field for field and in order
MappedFrom(results, rows) ==
    /\ Len(results) = Len(rows)
    /\ \A j \in 1..Len(rows) :
        /\ results[j].id = rows[j].id
        /\ results[j].text = rows[j].content
        /\ <<results[j].score>> = rows[j].similarity
        /\ results[j].metadata.document_id = rows[j].document_id
        /\ results[j].metadata.source = rows[j].source

\* C8: a query whose rpc call raised gets an empty result and the loop goes
\* on; every other query whose rows are well formed gets the results mapped
\* from the rows the backend returned for it.
C8_FailureIsolated ==
    /\ Len(rpc_log) = qi - 1
    /\ Len(query_results) = qi - 1
    /\ \A i \in 1..Len(query_results) :
        /\ rpc_log[i].raised => query_results[i].results = <<>>
        /\ (~rpc_log[i].raised /\ ~MapRaises(rpc_log[i].rows)) =>
              MappedFrom(query_results[i].results, rpc_log[i].rows)

C8_Witness ==
    /\ QueryReturned
    /\ Len(queries) = 2
    /\ rpc_log[1].raised /\ query_results[1].results = <<>>
    /\ ~rpc_log[2].raised /\ Len(query_results[2].results) = 3

\* C9: _query returns one QueryResult per input query, the i-th carrying the
\* query string of the i-th query, whether or not a backend call failed.
C9_OneResultPerQueryInOrder ==
    /\ Len(query_results) = qi - 1
    /\ QueryReturned => Len(query_results) = Len(queries)
    /\ \A i \in 1..Len(query_results) : query_results[i].query = queries[i].query

C9_Witness ==
    /\ QueryReturned
    /\ Len(queries) = 2
    /\ queries[1].query = "q2" /\ queries[2].query = "q1"
    /\ rpc_log[1].raised /\ ~rpc_log[2].raised
    /\ query_results[1].query = "q2" /\ query_results[2].query = "q1"

\* C10: the result of a query holds no more scored chunks than the top_k the
\* query asks for.
C10_ResultCountWithinTopK ==
    \A i \in 1..Len(query_results) :
        queries[i].top_k # NoInt =>
            Len(query_results[i].results) <= queries[i].top_k[1]

\* the parameter each filter field is translated to
FilterParam ==
    [document_id |-> "in_document_id", source |-> "in_source",
     source_id |-> "in_source_id", author |-> "in_author",
     start_date |-> "in_start_date", end_date |-> "in_end_date"]

\* C15: the parameters sent for a query hold the parameter of a filter field
\* exactly when the query has a filter and the field is not None on it.
C15_ParamIffFieldPresent ==
    \A i \in 1..Len(rpc_log) :
        \A field \in DOMAIN FilterParam :
            FilterParam[field] \in DOMAIN rpc_log[i].params
                <=> (queries[i].filter # NoFilter /\ queries[i].filter[field] # None)

----------------------------------------------------------------------------
(* datastore/providers/pgvector_datastore.py: PgVectorDataStore._upsert and *)
(* PgVectorDataStore.delete, on the documents table                         *)

MaxDocs == 2
MaxChunks == 2

DocumentIds == {"d1", "d2"}
ChunkIds == {"c1", "c2"}
Texts == {"a", "b"}

NoBool == <<>>
NoIds == <<>>

\* the chunks a document may carry: DocumentChunk(id, text, metadata)
DocumentChunks ==
    [id : ChunkIds, text : Texts,
     metadata : {[document_id |-> "d1", source |-> None, source_id |-> None,
                  author |-> None]}]

\* the number of chunks in a sequence of chunk lists
RECURSIVE TotalChunks(_)
TotalChunks(lists) ==
    IF lists = <<>> THEN 0 ELSE Len(Head(lists)) + TotalChunks(Tail(lists))

\* the orders in which a dict may hold its (distinct) keys
KeyLists ==
    {keys \in SeqsUpTo(DocumentIds, MaxDocs) :
        \A i \in DOMAIN keys, j \in DOMAIN keys : keys[i] = keys[j] => i = j}

\* chunks: Dict[str, List[DocumentChunk]], as the sequence of its items
UpsertInputs ==
    UNION {{[i \in DOMAIN keys |-> <<keys[i], lists[i]>>] :
                lists \in {l \in [DOMAIN keys -> SeqsUpTo(DocumentChunks, MaxChunks)] :
                              TotalChunks(l) <= MaxChunks}} :
           keys \in KeyLists}

\* lines 98-99: the two nested for loops, as the sequence of
\* (document_id, chunk) they go through
RECURSIVE Pairs(_)
Pairs(items) ==
    IF items = <<>> THEN <<>>
    ELSE [j \in 1..Len(Head(items)[2]) |-> <<Head(items)[1], Head(items)[2][j]>>]
            \o Pairs(Tail(items))

\* (mutant: the document id is taken from the chunk's metadata)
UpsertJson_metadataId(document_id, chunk) ==
    [id |-> chunk.id, content |-> chunk.text,
     document_id |-> chunk.metadata.document_id,
     source |-> chunk.metadata.source, source_id |-> chunk.metadata.source_id,
     author |-> chunk.metadata.author]

\* lines 100-109: the json of one chunk (embedding, url and created_at are
\* not modelled)
UpsertJson(document_id, chunk) ==
    [id |-> chunk.id, content |-> chunk.text, document_id |-> document_id,
     source |-> chunk.metadata.source, source_id |-> chunk.metadata.source_id,
     author |-> chunk.metadata.author]

\* line 118: list(chunks.keys())
Keys(items) == [i \in DOMAIN items |-> items[i][1]]

NullDocument ==
    [id |-> None, content |-> None, document_id |-> None, source |-> None,
     source_id |-> None, author |-> None]

\* client.table("documents").upsert(json).execute(): insert, or on a conflict
\* of the primary key id write the columns of json over the row
DocumentsUpsert(rows, json) ==
    LET old == {row \in rows : row.id = json.id}
    IN  IF old = {} THEN rows \cup {WriteColumns(NullDocument, json)}
        ELSE (rows \ old) \cup {WriteColumns(row, json) : row \in old}

TruthyBool(x) == x # NoBool /\ x[1]

\* (mutant: an empty list counts as given)
TruthyList_emptyCounts(x) == x # NoIds

\* line 192: elif ids
TruthyList(x) == x # NoIds /\ x[1] # <<>>

\* (mutant: ids are looked at before delete_all)
DeleteCalls_idsFirst(args) ==
    IF TruthyList(args.ids)
    THEN <<[op |-> "delete_in", column |-> "document_id", arg |-> args.ids[1]]>>
    ELSE IF TruthyBool(args.delete_all)
    THEN <<[op |-> "delete_like", column |-> "document_id", arg |-> <<"%">>]>>
    ELSE IF args.filter # NoFilter
    THEN <<[op |-> "delete_by_filters", column |-> None, arg |-> <<args.filter>>]>>
    ELSE <<>>

\* delete, lines 187-201: the client calls one call of delete issues
DeleteCalls(args) ==
    IF TruthyBool(args.delete_all)
    THEN <<[op |-> "delete_like", column |-> "document_id", arg |-> <<"%">>]>>
    ELSE IF TruthyList(args.ids)
    THEN <<[op |-> "delete_in", column |-> "document_id", arg |-> args.ids[1]]>>
    ELSE IF args.filter # NoFilter
    THEN <<[op |-> "delete_by_filters", column |-> None, arg |-> <<args.filter>>]>>
    ELSE <<>>

\* (mutant: the except clauses are missing their return False)
DeleteResult_alwaysTrue(raised) == TRUE

\* delete, lines 190, 195, 200, 201: False from an except clause, else True
DeleteResult(raised) == ~raised

Elements(seq) == {seq[i] : i \in DOMAIN seq}

\* delete_by_filters, lines 112-121: the .eq predicates of the truthy fields
FilterMatches(row, filter) ==
    /\ TruthyStr(filter.document_id) => row.document_id = filter.document_id
    /\ TruthyStr(filter.source) => row.source = filter.source
    /\ TruthyStr(filter.source_id) => row.source_id = filter.source_id
    /\ TruthyStr(filter.author) => row.author = filter.author

\* delete_by_filters, lines 122-131: start_date and end_date are str, their
\* [0] is a str, which has no isoformat: AttributeError before the execute
DeleteByFiltersRaises(filter) ==
    TruthyStr(filter.start_date) \/ TruthyStr(filter.end_date)

\* whether the client call raises before it reaches the backend
RaisesBeforeExecute(call) ==
    call.op = "delete_by_filters" /\ DeleteByFiltersRaises(call.arg[1])

\* delete_like, delete_in, delete_by_filters: the rows left by the delete
DocumentsDelete(rows, call) ==
    CASE call.op = "delete_like" -> {row \in rows : row[call.column] = None}
      [] call.op = "delete_in" ->
            {row \in rows : row[call.column] \notin Elements(call.arg)}
      [] call.op = "delete_by_filters" ->
            {row \in rows : ~FilterMatches(row, call.arg[1])}

IdleArgs == [ids |-> NoIds, filter |-> NoFilter, delete_all |-> NoBool]

NoResult == <<>>

\* a call of _upsert(chunks); what the call before it returned is gone
StartUpsert ==
    /\ store_pc = "idle"
    /\ \E input \in UpsertInputs : chunks' = input
    /\ ui' = 1
    /\ upsert_log' = <<>>
    /\ upsert_result' = NoResult
    /\ store_pc' = "upsert"
    /\ delete_calls' = <<>>
    /\ delete_result' = NoResult
    /\ UNCHANGED <<documents, latest, delete_args>>
    /\ UNCHANGED <<cmdVars, queryVars, adapterVars>>

\* line 116: await self.client.upsert("documents", json).  An exception of
\* the backend call is swallowed by SupabaseClient.upsert (the call returns
\* with the row written or not) or, when logging it raises, propagates out
\* of _upsert.
UpsertChunk ==
    /\ store_pc = "upsert"
    /\ ui <= Len(Pairs(chunks))
    /\ \E applied \in BOOLEAN, propagates \in BOOLEAN :
        LET pair == Pairs(chunks)[ui]
            json == ConvertObject(UpsertJson(pair[1], pair[2]))
        IN  /\ documents' = IF applied THEN DocumentsUpsert(documents, json)
                            ELSE documents
            /\ latest' = IF applied \/ ~propagates
                         THEN [latest EXCEPT ![json.id] = json.content]
                         ELSE latest
            /\ IF propagates
               THEN /\ store_pc' = "idle"
                    /\ chunks' = <<>>
                    /\ ui' = 1
                    /\ upsert_log' = <<>>
               ELSE /\ upsert_log' =
                          Append(upsert_log, [json |-> json, applied |-> applied])
                    /\ ui' = ui + 1
                    /\ UNCHANGED <<store_pc, chunks>>
    /\ UNCHANGED <<upsert_result, delete_args, delete_calls, delete_result>>
    /\ UNCHANGED <<cmdVars, queryVars, adapterVars>>

\* line 118: return list(chunks.keys()); the locals of the call are gone
UpsertReturn ==
    /\ store_pc = "upsert"
    /\ ui > Len(Pairs(chunks))
    /\ upsert_result' = <<Keys(chunks)>>
    /\ store_pc' = "idle"
    /\ chunks' = <<>>
    /\ ui' = 1
    /\ upsert_log' = <<>>
    /\ UNCHANGED <<documents, latest, delete_args, delete_calls, delete_result>>
    /\ UNCHANGED <<cmdVars, queryVars, adapterVars>>

\* the filters delete is called with
DeleteFilters ==
    {NoFilter,
     [document_id |-> "d1", source |-> None, source_id |-> None,
      author |-> None, start_date |-> None, end_date |-> None],
     [document_id |-> "d2", source |-> None, source_id |-> None,
      author |-> None, start_date |-> "2023-01-01", end_date |-> None]}

DeleteArgs ==
    [ids : {NoIds, << <<>> >>, << <<"d1">> >>},
     filter : DeleteFilters,
     delete_all : {NoBool, <<FALSE>>, <<TRUE>>}]

\* a call of delete(ids, filter, delete_all), lines 187-199: the client call
\* of the selected mode.  The backend applies it or the call raises (or both:
\* the answer is lost).
DeleteCall ==
    /\ store_pc = "idle"
    /\ \E args \in DeleteArgs, applied \in BOOLEAN, raises \in BOOLEAN :
        LET calls == DeleteCalls(args)
        IN  /\ calls = <<>> => ~applied /\ ~raises
            /\ calls # <<>> =>
                  /\ applied \/ raises
                  /\ RaisesBeforeExecute(calls[1]) => ~applied
            /\ delete_args' = args
            /\ delete_calls' =
                  [k \in DOMAIN calls |->
                      [call |-> calls[k], applied |-> applied, raised |-> raises]]
            /\ documents' = IF applied THEN DocumentsDelete(documents, calls[1])
                            ELSE documents
    /\ store_pc' = "delete"
    /\ delete_result' = NoResult
    /\ upsert_result' = NoResult
    /\ UNCHANGED <<latest, chunks, ui, upsert_log>>
    /\ UNCHANGED <<cmdVars, queryVars, adapterVars>>

\* lines 190, 195, 200, 201: return False from the except clause of the call
\* that raised, else return True; the arguments are gone
DeleteReturn ==
    /\ store_pc = "delete"
    /\ delete_result' = <<DeleteResult(\E k \in DOMAIN delete_calls : delete_calls[k].raised)>>
    /\ delete_args' = IdleArgs
    /\ store_pc' = "idle"
    /\ UNCHANGED <<documents, latest, chunks, ui, upsert_log, upsert_result,
                   delete_calls>>
    /\ UNCHANGED <<cmdVars, queryVars, adapterVars>>

InitStore ==
    /\ InitStoreIdle
    /\ InitAdapterIdle
    /\ InitCmdIdle
    /\ InitQueryIdle

NextStore ==
    \/ StartUpsert
    \/ UpsertChunk
    \/ UpsertReturn
    \/ DeleteCall
    \/ DeleteReturn

SpecStore == InitStore /\ [][NextStore]_vars

----------------------------------------------------------------------------
(* Properties of _upsert and delete *)

C12_DeleteReturnsFalseOnException ==
    /\ [](store_pc = "idle" =>
            /\ delete_result \in {NoResult, <<TRUE>>, <<FALSE>>}
            /\ (\E k \in DOMAIN delete_calls : delete_calls[k].raised) =>
                  delete_result = <<FALSE>>
            /\ delete_result = <<TRUE>> =>
                  \A k \in DOMAIN delete_calls : ~delete_calls[k].raised)
    /\ [][(store_pc = "delete" /\ store_pc' # "delete") =>
            store_pc' = "idle" /\ delete_result' # NoResult]_vars

C12_Witness ==
    /\ store_pc = "idle"
    /\ delete_result = <<FALSE>>
    /\ Len(delete_calls) = 1
    /\ delete_calls[1].call.op = "delete_by_filters"
    /\ delete_calls[1].raised

\* C13: _upsert returns its document ids only when every chunk of the call
\* was written.
C13_UpsertReturnsOnlyIfAllWritten ==
    [][(upsert_result = NoResult /\ upsert_result' # NoResult) =>
          \A k \in DOMAIN upsert_log : upsert_log[k].applied]_vars

\* C14: the documents table holds at most one row per chunk id, and the
\* content of that row is the text of the latest upsert of that id.
C14_OneRecordPerIdWithLatestText ==
    /\ \A row \in documents, other \in documents : row.id = other.id => row = other
    /\ \A row \in documents : row.content = latest[row.id]

\* the number of chunks listed under the documents before the i-th
Offset(items, i) == TotalChunks([m \in 1..(i - 1) |-> items[m][2]])

\* C20: the client.upsert calls of a call of _upsert are its chunks, one call
\* for each chunk, in the order of the input, each json with the id and text
\* of the chunk and the document id of the key the chunk is listed under; the
\* call returns when all are issued, and returns the keys of the input in
\* their order, the keys of empty chunk lists among them.
C20_OneUpsertPerChunkInOrder ==
    /\ [](store_pc = "upsert" =>
            /\ Len(upsert_log) <= Offset(chunks, Len(chunks) + 1)
            /\ \A i \in DOMAIN chunks :
                 \A j \in DOMAIN chunks[i][2] :
                    Offset(chunks, i) + j <= Len(upsert_log) =>
                        LET json == upsert_log[Offset(chunks, i) + j].json
                        IN  /\ json.id = chunks[i][2][j].id
                            /\ json.content = chunks[i][2][j].text
                            /\ json.document_id = chunks[i][1])
    /\ [][(upsert_result = NoResult /\ upsert_result' # NoResult) =>
            /\ Len(upsert_log) = Offset(chunks, Len(chunks) + 1)
            /\ upsert_result' = <<[i \in DOMAIN chunks |-> chunks[i][1]]>>]_vars

C20_Witness ==
    /\ store_pc = "idle"
    /\ upsert_result = << <<"d2", "d1">> >>
    /\ Cardinality(documents) = 2
    /\ \A row \in documents : row.document_id = "d2"

\* C21: a call of delete with delete_all None or False, ids None or empty and
\* no filter issues no client call, leaves the documents table as it is and
\* returns True; with ids empty and a filter given (delete_all not set) the
\* one call issued is the delete by that filter.
C21_NoModeNoCallEmptyIdsAbsent ==
    /\ [](store_pc = "delete" =>
            LET unset == delete_args.delete_all \in {NoBool, <<FALSE>>}
                no_ids == delete_args.ids \in {NoIds, << <<>> >>}
            IN  /\ (unset /\ no_ids /\ delete_args.filter = NoFilter) =>
                      delete_calls = <<>>
                /\ (unset /\ no_ids /\ delete_args.filter # NoFilter) =>
                      /\ Len(delete_calls) = 1
                      /\ delete_calls[1].call.op = "delete_by_filters"
                      /\ delete_calls[1].call.arg = <<delete_args.filter>>)
    /\ [][(store_pc = "idle" /\ store_pc' = "delete" /\ delete_calls' = <<>>) =>
            documents' = documents]_vars
    /\ [][(store_pc = "delete" /\ store_pc' # "delete" /\ delete_calls = <<>>) =>
            delete_result' = <<TRUE>>]_vars

C21_Witness ==
    /\ store_pc = "idle"
    /\ delete_result = <<TRUE>>
    /\ delete_calls = <<>>
    /\ Cardinality(documents) = 2

----------------------------------------------------------------------------
(* datastore/providers/supabase_datastore.py:                               *)
(* SupabaseClient._convert_object_to_serializable_json on nested values     *)
(*                                                                          *)
(* A nested Python value is a record with its type in t: the scalars none,  *)
(* str, float, datetime and enum carry their value in v; dict carries the   *)
(* sequence of its <<key, value>> items, list and tuple the sequence of     *)
(* their elements.                                                          *)

MaxEmbedding == 2

CommandType ==
    {"CommandType.CREATE_NOTE", "CommandType.MODIFY_NOTE", "CommandType.DELETE_NOTE"}

\* the .value of a member of any of the three enums
MemberValue(m) ==
    CASE m \in DOMAIN EnumValue -> EnumValue[m]
      [] m = "CommandType.CREATE_NOTE" -> "CREATE_NOTE"
      [] m = "CommandType.MODIFY_NOTE" -> "MODIFY_NOTE"
      [] m = "CommandType.DELETE_NOTE" -> "DELETE_NOTE"

PyNone == [t |-> "none", v |-> None]
PyStr(s) == [t |-> "str", v |-> s]
PyFloat(x) == [t |-> "float", v |-> x]
PyDatetime(d) == [t |-> "datetime", v |-> d]
PyEnum(m) == [t |-> "enum", v |-> m]
PyDict(items) == [t |-> "dict", items |-> items]
PyList(items) == [t |-> "list", items |-> items]
PyTuple(items) == [t |-> "tuple", items |-> items]

\* an Optional[str] field: None or a string
OptStr(s) == {PyNone, PyStr(s)}

\* DocumentMetadata.dict()
MetadataDicts ==
    {PyDict(<< <<"source", source>>, <<"source_id", PyNone>>, <<"url", url>>,
               <<"created_at", PyNone>>, <<"author", author>> >>) :
        source \in {PyNone, PyEnum("Source.FILE")},
        url \in OptStr("http://x"),
        author \in OptStr("ann")}

\* CommandWithContent.dict(): what create_command and update_command hand to
\* client.upsert and client.update
CommandDicts ==
    {PyDict(<< <<"id", PyStr("u1")>>, <<"status", PyEnum(status)>>,
               <<"errors", errors>>, <<"created_at", PyNone>>,
               <<"updated_at", PyNone>>,
               <<"type", PyEnum("CommandType.CREATE_NOTE")>>,
               <<"content", PyDict(<< <<"text", PyStr("a")>>,
                                      <<"metadata", metadata>> >>)>> >>) :
        status \in CommandStatus,
        errors \in OptStr("boom"),
        metadata \in MetadataDicts}

\* Optional[List[float]]
Embeddings ==
    {PyNone} \cup {PyList(l) : l \in SeqsUpTo({PyFloat("0.1"), PyFloat("0.2")}, MaxEmbedding)}

\* _upsert, lines 110-115: the created_at key is there for a truthy
\* chunk.metadata.created_at, its value a 1-tuple holding a datetime
CreatedAtItems == {<<>>, << <<"created_at", PyTuple(<<PyDatetime("2023-01-01")>>)>> >>}

\* _upsert, lines 100-115: the json handed to client.upsert
DocumentJsons ==
    {PyDict(<< <<"id", PyStr("c1")>>, <<"content", PyStr("a")>>,
               <<"embedding", embedding>>, <<"document_id", PyStr("d1")>>,
               <<"source", source>>, <<"source_id", PyNone>>,
               <<"url", PyNone>>, <<"author", author>> >> \o created_at) :
        embedding \in Embeddings,
        source \in {PyNone, PyEnum("Source.CHAT")},
        author \in OptStr("ann"),
        created_at \in CreatedAtItems}

\* (mutant: the values of a dict are not descended into)
RECURSIVE ConvertToSerializableJson_shallow(_)
ConvertToSerializableJson_shallow(data) ==
    CASE data.t = "dict" ->
            LET kept == SelectSeq(data.items, LAMBDA item : item[2].t # "none")
            IN  PyDict([i \in DOMAIN kept |->
                    <<kept[i][1],
                      IF kept[i][2].t = "enum" THEN PyStr(MemberValue(kept[i][2].v))
                      ELSE kept[i][2]>>])
      [] data.t = "list" ->
            PyList([i \in DOMAIN data.items |->
                      ConvertToSerializableJson_shallow(data.items[i])])
      [] data.t = "enum" -> PyStr(MemberValue(data.v))
      [] OTHER -> data

\* lines 55-63: dict -> the items whose value is not None, converted;
\* list -> the elements converted; Enum -> its value; anything else
\* (a tuple among them) -> itself
RECURSIVE ConvertToSerializableJson(_)
ConvertToSerializableJson(data) ==
    CASE data.t = "dict" ->
            LET kept == SelectSeq(data.items, LAMBDA item : item[2].t # "none")
            IN  PyDict([i \in DOMAIN kept |->
                    <<kept[i][1], ConvertToSerializableJson(kept[i][2])>>])
      [] data.t = "list" ->
            PyList([i \in DOMAIN data.items |->
                      ConvertToSerializableJson(data.items[i])])
      [] data.t = "enum" -> PyStr(MemberValue(data.v))
      [] OTHER -> data

NoJson == <<>>

\* upsert line 44, update line 71: json = self._convert_..._json(json)
Serialize ==
    /\ conv_pc = "called"
    /\ conv_json' = ConvertToSerializableJson(conv_data)
    /\ conv_pc' = "converted"
    /\ UNCHANGED <<conv_op, conv_data, conv_again>>
    /\ UNCHANGED <<cmdVars, queryVars, storeVars>>

\* the adapter applied to what it returned
SerializeAgain ==
    /\ conv_pc = "converted"
    /\ conv_again' = ConvertToSerializableJson(conv_json)
    /\ conv_pc' = "twice"
    /\ UNCHANGED <<conv_op, conv_data, conv_json>>
    /\ UNCHANGED <<cmdVars, queryVars, storeVars>>

\* a call of client.upsert or client.update with its json
InitAdapter ==
    /\ conv_op \in {"upsert", "update"}
    /\ conv_data \in IF conv_op = "upsert" THEN CommandDicts \cup DocumentJsons
                     ELSE CommandDicts
    /\ conv_json = NoJson
    /\ conv_again = NoJson
    /\ conv_pc = "called"
    /\ InitCmdIdle
    /\ InitQueryIdle
    /\ InitStoreIdle

NextAdapter ==
    \/ Serialize
    \/ SerializeAgain

SpecAdapter == InitAdapter /\ [][NextAdapter]_vars

\* no enum member in the value and no None under a key of a dict, at any
\* depth of dicts, lists and tuples
RECURSIVE Serializable(_)
Serializable(value) ==
    CASE value.t = "enum" -> FALSE
      [] value.t = "dict" ->
            \A i \in DOMAIN value.items :
                value.items[i][2].t # "none" /\ Serializable(value.items[i][2])
      [] value.t \in {"list", "tuple"} ->
            \A i \in DOMAIN value.items : Serializable(value.items[i])
      [] OTHER -> TRUE

\* out is value with every enum member replaced by its .value and the items
\* of its dicts that hold None left out, and is value otherwise
RECURSIVE SameButEnumsAndNulls(_, _)
SameButEnumsAndNulls(value, out) ==
    CASE value.t = "enum" -> out = PyStr(MemberValue(value.v))
      [] value.t = "dict" ->
            LET kept == SelectSeq(value.items, LAMBDA item : item[2] # PyNone)
            IN  /\ out.t = "dict"
                /\ Len(out.items) = Len(kept)
                /\ \A i \in DOMAIN kept :
                      /\ out.items[i][1] = kept[i][1]
                      /\ SameButEnumsAndNulls(kept[i][2], out.items[i][2])
      [] value.t = "list" ->
            /\ out.t = "list"
            /\ Len(out.items) = Len(value.items)
            /\ \A i \in DOMAIN value.items :
                  SameButEnumsAndNulls(value.items[i], out.items[i])
      [] OTHER -> out = value

\* C22: what the adapter returns for the json of an upsert or an update holds
\* no None under a key and no enum member at any depth, every enum member of
\* the json being replaced by its value; the adapter applied to what it
\* returned returns the same.
C22_AdapterOutputSerializableAndFixed ==
    /\ conv_pc \in {"converted", "twice"} =>
          /\ Serializable(conv_json)
          /\ SameButEnumsAndNulls(conv_data, conv_json)
    /\ conv_pc = "twice" => conv_again = conv_json

C22_Witness ==
    /\ conv_pc = "twice"
    /\ conv_op = "update"
    /\ conv_data # conv_json
    /\ \E i \in DOMAIN conv_json.items :
          /\ conv_json.items[i][1] = "content"
          /\ conv_json.items[i][2].items[2][2] =
                PyDict(<< <<"source", PyStr("FILE")>>, <<"author", PyStr("ann")>> >>)

====
